---------------------------- MODULE Spec2Model ----------------------------
(***************************************************************************)
(* Model of the Humanitarian Outcomes scraper: Pipeline (pipeline.py) and  *)
(* the run in main (__main__.py).                                          *)
(*                                                                         *)
(* A cell of a table is one of                                             *)
(*    [str |-> s]   a text value,                                          *)
(*    [num |-> n]   a numeric value,                                       *)
(*    [na  |-> TRUE] a missing value (NaN / pd.NA).                        *)
(* A DataFrame is [columns |-> sequence of column names,                   *)
(*                 rows    |-> sequence of [idx |-> label, cells |-> f]]   *)
(* where idx is the row's index label and f maps each column to a cell.    *)
(* A timestamp is the number year*10000 + month*100 + day, so that the     *)
(* order of timestamps is the order of the numbers.  A possibly missing    *)
(* timestamp (NaT) is the empty set, a present one the singleton {t}.      *)
(***************************************************************************)
EXTENDS Integers, Sequences, FiniteSets, TLC

VARIABLES
    pc,         \* position of main: "get_data", "loop", "global", "done", "aborted"
    response,   \* the CSV the retriever returns, as parsed line by line
    _data,      \* Pipeline._data
    i,          \* position of the loop of main over countries
    calls,      \* one entry per call of generate_dataset: its country and what it returned
    created,    \* the datasets on which main called create_in_hdx, in order
    global_ret, \* what generate_global_dataset returned (NotCalled before it ran)
    tempdir,    \* the resource files written into the working directory
    range       \* result of a direct call of get_date_range (<<>> before it ran)

vars == <<pc, response, _data, i, calls, created, global_ret, tempdir, range>>

-----------------------------------------------------------------------------
(* Bounds of the model *)

MaxRows == 3

MaxDateRows == 2

-----------------------------------------------------------------------------
(* Cells *)

Str(s) == [str |-> s]

Num(n) == [num |-> n]

NA == [na |-> TRUE]

IsStr(c) == DOMAIN c = {"str"}

IsNum(c) == DOMAIN c = {"num"}

IsNA(c) == DOMAIN c = {"na"}

Range(s) == {s[k] : k \in DOMAIN s}

Min(S) == CHOOSE x \in S : \A y \in S : x <= y

Max(S) == CHOOSE x \in S : \A y \in S : x >= y

None == [none |-> TRUE]

-----------------------------------------------------------------------------
(* pandas operations used by the pipeline *)

\* pd.DataFrame(): no columns, no rows
EmptyFrame == [columns |-> <<>>, rows |-> <<>>]

\* df.empty
Empty(df) == Len(df.rows) = 0 \/ Len(df.columns) = 0

\* pd.to_numeric(value, errors="coerce") on one cell: text that is no number
\* and missing values become missing
to_numeric(c) == IF IsNum(c) THEN c ELSE NA

\* df[col] = pd.to_numeric(df[col], errors="coerce").astype("Int64")
CoerceColumn(df, col) ==
    [df EXCEPT !.rows = [k \in DOMAIN df.rows |->
        [df.rows[k] EXCEPT !.cells[col] = to_numeric(df.rows[k].cells[col])]]]

\* fillna(v) on one cell
fillna(c, v) == IF IsNA(c) THEN v ELSE c

\* The columns get_data casts to Int64
DateColumns == <<"Year", "Month", "Day">>

\* A column read by read_csv has dtype object when it holds a text value,
\* and also when the frame has no row at all
IsObjectColumn(df, col) ==
    \/ Len(df.rows) = 0
    \/ \E k \in DOMAIN df.rows : IsStr(df.rows[k].cells[col])

\* df.select_dtypes(include="object").columns, once Year, Month and Day
\* have been cast to Int64
select_dtypes_object(df) ==
    {df.columns[k] : k \in {j \in DOMAIN df.columns :
                               /\ df.columns[j] \notin Range(DateColumns)
                               /\ IsObjectColumn(df, df.columns[j])}}

\* pd.read_csv(response, skiprows=[1]): line 0 is the header, line 1 (the
\* first line after the header, the HXL tag row) is skipped, the remaining
\* lines are the rows, labelled 0, 1, ...
read_csv(resp) ==
    LET lines == IF Len(resp.lines) >= 1 THEN Tail(resp.lines) ELSE resp.lines
    IN  [columns |-> resp.header,
         rows    |-> [k \in DOMAIN lines |-> [idx |-> k - 1, cells |-> lines[k]]]]

-----------------------------------------------------------------------------
(* Pipeline.get_data *)

RECURSIVE CoerceDateColumns(_, _)
CoerceDateColumns(df, k) ==
    IF k > Len(DateColumns) THEN df
    ELSE CoerceDateColumns(CoerceColumn(df, DateColumns[k]), k + 1)

FillBlank(c) == fillna(c, Str(""))

FillObjectColumns(df) ==
    LET obj_cols == select_dtypes_object(df)
    IN  [df EXCEPT !.rows = [k \in DOMAIN df.rows |->
            [df.rows[k] EXCEPT !.cells = [c \in DOMAIN df.rows[k].cells |->
                IF c \in obj_cols THEN FillBlank(df.rows[k].cells[c])
                ELSE df.rows[k].cells[c]]]]]

get_data(resp) == FillObjectColumns(CoerceDateColumns(read_csv(resp), 1))

-----------------------------------------------------------------------------
(* Pipeline.get_date_range *)

\* hdx.utilities.dateparse.default_date: 0001-01-01
default_date == 1 * 10000 + 1 * 100 + 1

\* hdx.utilities.dateparse.default_enddate: 9990-12-31
default_enddate == 9990 * 10000 + 12 * 100 + 31

\* Series.clip(lo, hi) on one value
clip(v, lo, hi) == IF v < lo THEN lo ELSE IF v > hi THEN hi ELSE v

\* pd.to_numeric(errors="coerce"), fillna(1), astype(int) on one cell
FilledInt(c) == fillna(to_numeric(c), Num(1)).num

IsLeap(y) == (y % 4 = 0 /\ y % 100 # 0) \/ y % 400 = 0

DaysInMonth(y, m) ==
    IF m = 2 THEN (IF IsLeap(y) THEN 29 ELSE 28)
    ELSE IF m \in {4, 6, 9, 11} THEN 30 ELSE 31

\* The timestamp of a calendar date, NaT when the date does not exist or
\* lies outside what a nanosecond timestamp holds
\* (1677-09-21T00:12:43 .. 2262-04-11T23:47:16)
Timestamp(y, m, d) ==
    LET t == y * 10000 + m * 100 + d
    IN  IF /\ m \in 1..12
           /\ d >= 1 /\ d <= DaysInMonth(y, m)
           /\ 16770922 <= t /\ t <= 22620411
        THEN {t} ELSE {}

\* str(v) matched against the format %Y%m%d, whose month and day accept one
\* or two digits while the year takes exactly four.  Seven digits are read
\* as year, then the first alternative that consumes the rest: month
\* 1[0-2] with a one-digit day, month 0[1-9] with a one-digit day, a
\* one-digit month with a two-digit day.  Six digits are read as year,
\* one-digit month, one-digit day.  Nothing else matches.
ParseYmd(v) ==
    IF v >= 10000000 /\ v <= 99999999
    THEN Timestamp(v \div 10000, (v \div 100) % 100, v % 100)
    ELSE IF v >= 1000000 /\ v <= 9999999
    THEN LET Y  == v \div 1000
             m2 == (v \div 100) % 10
             e1 == (v \div 10) % 10
             e2 == v % 10
         IN  IF m2 = 1 /\ e1 <= 2 /\ e2 >= 1 THEN Timestamp(Y, 10 + e1, e2)
             ELSE IF m2 = 0 /\ e1 >= 1 /\ e2 >= 1 THEN Timestamp(Y, e1, e2)
             ELSE IF m2 >= 1 /\ 10 * e1 + e2 >= 1
                     /\ (e1 <= 2 \/ (e1 = 3 /\ e2 <= 1))
             THEN Timestamp(Y, m2, 10 * e1 + e2)
             ELSE {}
    ELSE IF v >= 100000 /\ v <= 999999
    THEN IF (v \div 10) % 10 >= 1 /\ v % 10 >= 1
         THEN Timestamp(v \div 100, (v \div 10) % 10, v % 10)
         ELSE {}
    ELSE {}

\* pd.to_datetime({"year": y, "month": m, "day": d}, errors="coerce") on one
\* row: the three numbers are summed to year*10000 + month*100 + day and the
\* sum is parsed with the format %Y%m%d
to_datetime(y, m, d) == ParseYmd(y * 10000 + m * 100 + d)

\* The Series dates of get_date_range: one possibly missing timestamp per row
RowDate(cells) ==
    to_datetime(FilledInt(cells["Year"]),
                clip(FilledInt(cells["Month"]), 1, 12),
                clip(FilledInt(cells["Day"]), 1, 31))

\* df[c] for every c of cols: a column the frame does not have raises KeyError
HasColumns(df, cols) == cols \subseteq Range(df.columns)

\* What an operation gives in place of its result when it raises KeyError
KeyError == <<"KeyError">>

\* Variant of get_date_range without the branch for a table without dates
get_date_range_nosentinel(df) ==
    LET valid == UNION {RowDate(df.rows[k].cells) : k \in DOMAIN df.rows}
    IN  IF ~HasColumns(df, Range(DateColumns)) THEN KeyError
        ELSE IF valid = {} THEN <<0, 0>>   \* (NaT, NaT)
        ELSE <<Min(valid), Max(valid)>>

\* Returns <<min date, max date>>; the three columns are read before any row
\* is looked at, so a frame without them raises KeyError
get_date_range(df) ==
    LET valid == UNION {RowDate(df.rows[k].cells) : k \in DOMAIN df.rows}
    IN  IF ~HasColumns(df, Range(DateColumns)) THEN KeyError
        ELSE IF valid = {} THEN <<default_enddate, default_date>>
        ELSE <<Min(valid), Max(valid)>>

-----------------------------------------------------------------------------
(* Configuration and the publishing client *)

\* configuration["title"]
ConfigTitle == "Aid Worker Security Database"

\* configuration["tags"]
ConfigTags == {"aid worker security", "aid workers", "conflict-violence"}

\* str.lower() on the country codes of the model
Lower(s) ==
    CASE s = "COL" -> "col"
      [] s = "PSE" -> "pse"
      [] s = "FRA" -> "fra"
      [] s = "AFG" -> "afg"
      [] OTHER -> s

\* str.upper() on the two-letter codes of the model, for the
\* case-insensitive variant of CountryFilter
Upper(s) ==
    CASE s = "co" -> "CO"
      [] s = "ps" -> "PS"
      [] OTHER -> s

\* Dataset.add_country_location(iso3): "ok", or "HDXError" when the platform
\* does not know the country
add_country_location(iso3, resolves) == IF resolves THEN "ok" ELSE "HDXError"

\* df.to_dict(orient="records"): the rows without their index labels
to_dict_records(df) == [k \in DOMAIN df.rows |-> df.rows[k].cells]

\* The resource that generate_resource_from_iterable is asked to write into
\* folder under filename
Resource(name, description, df) ==
    [name |-> name, description |-> description, filename |-> name,
     headers |-> df.columns, rows |-> to_dict_records(df)]

-----------------------------------------------------------------------------
(* Pipeline.generate_dataset *)

SensitiveColumns == {"Latitude", "Longitude", "City"}

\* self._data[self._data["Country Code"] == iso2].copy()
\* Variant of CountryFilter that compares the codes without regard to case
CountryFilter_nocase(df, iso2) ==
    [df EXCEPT !.rows = SelectSeq(df.rows,
        LAMBDA r : /\ IsStr(r.cells["Country Code"])
                   /\ Upper(r.cells["Country Code"].str) = Upper(iso2))]

CountryFilter(df, iso2) ==
    [df EXCEPT !.rows = SelectSeq(df.rows,
        LAMBDA r : r.cells["Country Code"] = Str(iso2))]

\* df.drop(columns=cols, errors="ignore")
drop_columns(df, cols) ==
    [columns |-> SelectSeq(df.columns, LAMBDA c : c \notin cols),
     rows    |-> [k \in DOMAIN df.rows |->
                    [df.rows[k] EXCEPT !.cells =
                        [c \in (DOMAIN df.rows[k].cells) \ cols |-> df.rows[k].cells[c]]]]]

\* The outcome of a call: what it returned (a dataset or None), the exception
\* it let escape ("none" when it returned), self._data after the call,
\* whether a Dataset object was constructed and the files written to tempdir
Outcome(ret, exc, data, constructed, files) ==
    [ret |-> ret, exc |-> exc, data |-> data,
     constructed |-> constructed, files |-> files]

NewDataset(name, title, period, location, resources) ==
    [name |-> name, title |-> title,
     time_period |-> period,
     tags |-> ConfigTags, subnational |-> TRUE, dataset_preview |-> "no_preview",
     location |-> location, resources |-> resources]

\* The projection of one country: its rows, without the location columns
\* when the country is PSE
CountryFrame(filtered, iso3) ==
    IF iso3 = "PSE" THEN drop_columns(filtered, SensitiveColumns) ELSE filtered

\* The resource of a country's dataset
CountryResource(country, country_df) ==
    Resource("AWSD_" \o country.iso2 \o "_security_incidents.csv",
             "This dataset shows aid worker security incidents in "
                 \o country.name \o ".",
             country_df)

\* The dataset of a country, with its resource
CountryDataset(country, country_df, period) ==
    NewDataset("aid-worker-security-database-" \o Lower(country.iso3),
               country.name \o " - " \o ConfigTitle,
               period, Lower(country.iso3),
               <<CountryResource(country, country_df)>>)

\* Variant of generate_dataset that takes the date range of the whole table
generate_dataset_range_of_all(data, country, resolves) ==
    LET filtered == CountryFilter(data, country.iso2)
        country_df == CountryFrame(filtered, country.iso3)
        dataset == CountryDataset(country, country_df, get_date_range(data))
    IN  IF ~HasColumns(data, {"Country Code"})
        THEN Outcome(None, "KeyError", data, FALSE, {})
        ELSE IF Empty(filtered) THEN Outcome(None, "none", data, FALSE, {})
        ELSE IF dataset.time_period = KeyError
        THEN Outcome(None, "KeyError", data, FALSE, {})
        ELSE IF add_country_location(country.iso3, resolves) = "HDXError"
        THEN Outcome(None, "none", data, TRUE, {})
        ELSE Outcome(dataset, "none", data, TRUE, {CountryResource(country, country_df)})

\* Variant of generate_dataset without the return on an empty projection
generate_dataset_no_empty_check(data, country, resolves) ==
    LET filtered == CountryFilter(data, country.iso2)
        country_df == CountryFrame(filtered, country.iso3)
        dataset == CountryDataset(country, country_df, get_date_range(country_df))
    IN  IF ~HasColumns(data, {"Country Code"})
        THEN Outcome(None, "KeyError", data, FALSE, {})
        ELSE IF dataset.time_period = KeyError
        THEN Outcome(None, "KeyError", data, FALSE, {})
        ELSE IF add_country_location(country.iso3, resolves) = "HDXError"
        THEN Outcome(None, "none", data, TRUE, {})
        ELSE Outcome(dataset, "none", data, TRUE, {CountryResource(country, country_df)})

\* Variant of generate_dataset that does not catch HDXError
generate_dataset_propagates(data, country, resolves) ==
    LET filtered == CountryFilter(data, country.iso2)
        country_df == CountryFrame(filtered, country.iso3)
        dataset == CountryDataset(country, country_df, get_date_range(country_df))
    IN  IF ~HasColumns(data, {"Country Code"})
        THEN Outcome(None, "KeyError", data, FALSE, {})
        ELSE IF Empty(filtered) THEN Outcome(None, "none", data, FALSE, {})
        ELSE IF dataset.time_period = KeyError
        THEN Outcome(None, "KeyError", data, FALSE, {})
        ELSE IF add_country_location(country.iso3, resolves) = "HDXError"
        THEN Outcome(None, "HDXError", data, TRUE, {})
        ELSE Outcome(dataset, "none", data, TRUE, {CountryResource(country, country_df)})

\* Returns the dataset of the country, or None when the table has no row of
\* the country or the platform does not know the country.  KeyError escapes
\* when the table has no Country Code column (line 53) or the projection no
\* Year, Month or Day column (line 65)
generate_dataset(data, country, resolves) ==
    LET filtered == CountryFilter(data, country.iso2)
        country_df == CountryFrame(filtered, country.iso3)
        dataset == CountryDataset(country, country_df, get_date_range(country_df))
    IN  IF ~HasColumns(data, {"Country Code"})
        THEN Outcome(None, "KeyError", data, FALSE, {})
        ELSE IF Empty(filtered) THEN Outcome(None, "none", data, FALSE, {})
        ELSE IF dataset.time_period = KeyError
        THEN Outcome(None, "KeyError", data, FALSE, {})
        ELSE IF add_country_location(country.iso3, resolves) = "HDXError"
        THEN Outcome(None, "none", data, TRUE, {})
        ELSE Outcome(dataset, "none", data, TRUE, {CountryResource(country, country_df)})

-----------------------------------------------------------------------------
(* Pipeline.generate_global_dataset *)

\* A numeric column read by read_csv is float64 when a value is missing
IsFloatColumn(df, col) == \E k \in DOMAIN df.rows : IsNA(df.rows[k].cells[col])

\* Series.astype("string") on one cell of a column
astype_string(c, float) ==
    IF IsNum(c) THEN Str(IF float THEN ToString(c.num) \o ".0" ELSE ToString(c.num))
    ELSE c

\* global_df[cols] = global_df[cols].astype("string")
ColumnsAsString(df, cols) ==
    [df EXCEPT !.rows = [k \in DOMAIN df.rows |->
        [df.rows[k] EXCEPT !.cells = [c \in DOMAIN df.rows[k].cells |->
            IF c \in cols
            THEN astype_string(df.rows[k].cells[c], IsFloatColumn(df, c))
            ELSE df.rows[k].cells[c]]]]]

\* Variant of BlankPS that leaves City as it is
BlankPS_keep_city(df, cols) ==
    [df EXCEPT !.rows = [k \in DOMAIN df.rows |->
        IF df.rows[k].cells["Country Code"] = Str("PS")
        THEN [df.rows[k] EXCEPT !.cells = [c \in DOMAIN df.rows[k].cells |->
                IF c \in cols \ {"City"} THEN Str("") ELSE df.rows[k].cells[c]]]
        ELSE df.rows[k]]]

\* global_df.loc[global_df["Country Code"] == "PS", cols] = ""
BlankPS(df, cols) ==
    [df EXCEPT !.rows = [k \in DOMAIN df.rows |->
        IF df.rows[k].cells["Country Code"] = Str("PS")
        THEN [df.rows[k] EXCEPT !.cells = [c \in DOMAIN df.rows[k].cells |->
                IF c \in cols THEN Str("") ELSE df.rows[k].cells[c]]]
        ELSE df.rows[k]]]

GlobalDescription ==
    "The AWSD is a global compilation of reports on major security incidents involving deliberate acts of violence affecting aid workers. Annually, the data for the previous year undergoes a verification process to ensure that the data is accurate. For incident descriptions, please download data directly from www.aidworkersecurity.org"

\* Variant of generate_global_dataset that works on self._data itself
generate_global_dataset_nocopy(data) ==
    LET global_df == BlankPS(ColumnsAsString(data, SensitiveColumns), SensitiveColumns)
        period == get_date_range(global_df)
        resource == Resource("Global security incidents", GlobalDescription, global_df)
        dataset == NewDataset("aid-worker-security-data-global",
                              "Global - Aid Worker Security Database",
                              period, "world", <<resource>>)
    IN  IF ~HasColumns(data, {"Country Code"} \cup SensitiveColumns)
        THEN Outcome(None, "KeyError", data, FALSE, {})
        ELSE IF period = KeyError
        THEN Outcome(None, "KeyError", global_df, FALSE, {})
        ELSE Outcome(dataset, "none", global_df, TRUE, {resource})

\* Returns the global dataset; global_df is a copy, so self._data is as before.
\* KeyError escapes when the table lacks Country Code, Latitude, Longitude or
\* City (lines 116-118) or Year, Month or Day (line 122)
generate_global_dataset(data) ==
    LET global_df == BlankPS(ColumnsAsString(data, SensitiveColumns), SensitiveColumns)
        period == get_date_range(global_df)
        resource == Resource("Global security incidents", GlobalDescription, global_df)
        dataset == NewDataset("aid-worker-security-data-global",
                              "Global - Aid Worker Security Database",
                              period, "world", <<resource>>)
    IN  IF ~HasColumns(data, {"Country Code"} \cup SensitiveColumns)
        THEN Outcome(None, "KeyError", data, FALSE, {})
        ELSE IF period = KeyError
        THEN Outcome(None, "KeyError", data, FALSE, {})
        ELSE Outcome(dataset, "none", data, TRUE, {resource})

-----------------------------------------------------------------------------
(* Inputs *)

Columns == <<"Country Code", "Latitude", "Longitude", "City", "Year", "Month", "Day">>

Row(cc, lat, lon, city, y, m, d) ==
    [c \in Range(Columns) |->
        CASE c = "Country Code" -> cc
          [] c = "Latitude" -> lat
          [] c = "Longitude" -> lon
          [] c = "City" -> city
          [] c = "Year" -> y
          [] c = "Month" -> m
          [] c = "Day" -> d]

\* The line of HXL tags that follows the header of the export
HxlRow ==
    Row(Str("#country+code"), Str("#geo+lat"), Str("#geo+lon"), Str("#loc+city"),
        Str("#date+year"), Str("#date+month"), Str("#date+day"))

\* Lines of the export as read_csv parses their fields: a blank field (and
\* the text NA) is missing, digits are a number, anything else is text
RowPool ==
    { Row(Str("CO"), Num(4),  Num(-74), Str("Bogota"), Num(2020), Num(13), Num(1)),
      Row(Str("CO"), NA,      NA,       NA,            Num(2019), Num(4),  Num(31)),
      Row(Str("co"), Num(5),  Num(-75), Str("Cali"),   Num(2021), Num(2),  Num(28)),
      Row(Str("PS"), Num(31), Num(34),  Str("Gaza"),   Num(2021), Num(6),  Num(15)),
      Row(Str("PS"), NA,      NA,       Str("Rafah"),  NA,        Num(5),  Num(5)),
      Row(Str("FR"), Num(48), Num(2),   Str("Paris"),  Num(2018), NA,      NA),
      Row(Str("AF"), Num(34), Num(69),  Str("Kabul"),  Str("unknown"), Num(0), Num(40)),
      Row(NA,        Num(1),  Num(1),   NA,            Num(2022), Num(12), Num(31)) }

SeqsUpTo(S, n) == UNION {[1..k -> S] : k \in 0..n}

Responses ==
    {[header |-> Columns, lines |-> <<HxlRow>> \o rows] : rows \in SeqsUpTo(RowPool, MaxRows)}

\* Country.countriesdata() and Country.get_hrp_status_from_iso3, as main
\* collects them into countries
countries ==
    << [isHRP |-> TRUE,  iso2 |-> "CO", iso3 |-> "COL", name |-> "Colombia"],
       [isHRP |-> FALSE, iso2 |-> "PS", iso3 |-> "PSE", name |-> "State of Palestine"],
       [isHRP |-> FALSE, iso2 |-> "FR", iso3 |-> "FRA", name |-> "France"],
       [isHRP |-> TRUE,  iso2 |-> "AF", iso3 |-> "AFG", name |-> "Afghanistan"] >>

NotCalled == [not_called |-> TRUE]

-----------------------------------------------------------------------------
(* main *)

\* Variant of Selected without the exception for PSE
Selected_hrp_only(country) == country.isHRP

\* The condition under which the loop of main generates a country's dataset
Selected(country) == country.isHRP \/ country.iso3 = "PSE"

\* The notes of hdx_dataset_static.yaml with "(country)" replaced by the
\* name of the country
CountryNotes(country) ==
    "This dataset shows aid worker security incidents in " \o country.name
        \o ". Annually, the data for the previous year undergoes a verification process. Data for the current year is provisional. For incident descriptions, please download data directly from [www.aidworkersecurity.org](www.aidworkersecurity.org)\n"

\* The notes main gives the global dataset
GlobalNotes ==
    "The Aid Worker Security Database (AWSD) records major incidents of violence against aid workers, with incident reports from 1997 through the present. Initiated in 2005, to date the AWSD remains the sole comprehensive global source of these data, providing the evidence base for analysis of the changing security environment for civilian aid operations."

\* The dataset after update_from_yaml(hdx_dataset_static.yaml) and with the
\* notes main sets, as it is handed to create_in_hdx
WithStatic(dataset, notes) ==
    [name |-> dataset.name, title |-> dataset.title,
     time_period |-> dataset.time_period, tags |-> dataset.tags,
     subnational |-> dataset.subnational, dataset_preview |-> dataset.dataset_preview,
     location |-> dataset.location, resources |-> dataset.resources,
     caveats |-> None,
     license_id |-> "cc-by",
     methodology |-> "This data was compiled using media reports, incident reports, and by a process of annual verification in which affected and non-affected agencies are contacted to provide data.",
     dataset_source |-> "Humanitarian Outcomes",
     package_creator |-> "HDX Data Systems Team",
     private |-> FALSE,
     maintainer |-> "fdbb8e79-f020-4039-ab3a-9adb482273b8",
     owner_org |-> "9675c871-7b87-4f08-86f8-fd53f7809096",
     data_update_frequency |-> 1,
     notes |-> notes]

Init ==
    /\ pc = "get_data"
    /\ response \in Responses
    /\ _data = EmptyFrame
    /\ i = 1
    /\ calls = <<>>
    /\ created = <<>>
    /\ global_ret = NotCalled
    /\ tempdir = {}
    /\ range = <<>>

\* pipeline.get_data()
GetData ==
    /\ pc = "get_data"
    /\ _data' = get_data(response)
    /\ pc' = "loop"
    /\ UNCHANGED <<response, i, calls, created, global_ret, tempdir, range>>

AfterCountry(k) == IF k >= Len(countries) THEN "global" ELSE "loop"

\* One pass of the loop over a country that is neither HRP nor PSE
LoopSkip ==
    /\ pc = "loop"
    /\ ~Selected(countries[i])
    /\ i' = i + 1
    /\ pc' = AfterCountry(i)
    /\ UNCHANGED <<response, _data, calls, created, global_ret, tempdir, range>>

\* One pass of the loop over an HRP country or PSE
LoopGenerate ==
    /\ pc = "loop"
    /\ Selected(countries[i])
    /\ \E resolves \in BOOLEAN :
        LET r == generate_dataset(_data, countries[i], resolves)
        IN  /\ _data' = r.data
            /\ tempdir' = tempdir \cup r.files
            /\ calls' = Append(calls, [country |-> countries[i], ret |-> r.ret,
                                       constructed |-> r.constructed,
                                       resolves |-> resolves,
                                       wrote |-> r.files # {}])
            /\ IF r.exc # "none"
               THEN /\ pc' = "aborted"
                    /\ UNCHANGED <<i, created>>
               ELSE /\ created' = IF r.ret # None
                                  THEN Append(created,
                                           WithStatic(r.ret, CountryNotes(countries[i])))
                                  ELSE created
                    /\ i' = i + 1
                    /\ pc' = AfterCountry(i)
    /\ UNCHANGED <<response, global_ret, range>>

\* The global dataset, after the loop
GlobalDataset ==
    /\ pc = "global"
    /\ LET r == generate_global_dataset(_data)
       IN  /\ _data' = r.data
           /\ tempdir' = tempdir \cup r.files
           /\ IF r.exc # "none"
              THEN /\ pc' = "aborted"
                   /\ UNCHANGED <<global_ret, created>>
              ELSE /\ global_ret' = r.ret
                   /\ created' = IF r.ret # None
                                 THEN Append(created, WithStatic(r.ret, GlobalNotes))
                                 ELSE created
                   /\ pc' = "done"
    /\ UNCHANGED <<response, i, calls, range>>

Next == GetData \/ LoopSkip \/ LoopGenerate \/ GlobalDataset

Spec == Init /\ [][Next]_vars

-----------------------------------------------------------------------------
(* get_date_range applied to tables of dates *)

\* A missing Year, a Year of two digits, a leap year, and the first and the
\* last year a timestamp holds (from 1677-09-22, to 2262-04-11)
DateYears == {NA, Num(19), Num(1677), Num(2020), Num(2262)}

DateMonths == {NA, Num(2), Num(4), Num(13)}

DateDays == {NA, Num(1), Num(29), Num(31), Num(32)}

DateRowPool ==
    {Row(Str("CO"), NA, NA, Str(""), y, m, d) : y \in DateYears, m \in DateMonths, d \in DateDays}

\* A loaded table: the rows labelled 0, 1, ...
Frame(rows) ==
    [columns |-> Columns,
     rows    |-> [k \in DOMAIN rows |-> [idx |-> k - 1, cells |-> rows[k]]]]

InitDate ==
    /\ pc = "date_range"
    /\ response = [header |-> Columns, lines |-> <<HxlRow>>]
    /\ _data \in {Frame(rows) : rows \in SeqsUpTo(DateRowPool, MaxDateRows)}
    /\ i = 1
    /\ calls = <<>>
    /\ created = <<>>
    /\ global_ret = NotCalled
    /\ tempdir = {}
    /\ range = <<>>

\* self.get_date_range(self._data)
DateRange ==
    /\ pc = "date_range"
    /\ range' = get_date_range(_data)
    /\ pc' = "done"
    /\ UNCHANGED <<response, _data, i, calls, created, global_ret, tempdir>>

NextDate == DateRange

SpecDate == InitDate /\ [][NextDate]_vars

-----------------------------------------------------------------------------
(* Properties *)

\* The table as get_data loaded it
Loaded == get_data(response)

\* The positions of the rows of table L whose Country Code is exactly iso2
MatchIdx(L, iso2) ==
    {k \in DOMAIN L.rows : L.rows[k].cells["Country Code"] = [str |-> iso2]}

Restrict(cells, headers) == [c \in Range(headers) |-> cells[c]]

\* The table a resource holds
FrameOf(resource) ==
    [columns |-> resource.headers,
     rows    |-> [k \in DOMAIN resource.rows |-> [idx |-> k, cells |-> resource.rows[k]]]]

Returned(n) == calls[n].ret # None

\* C1: the resource that generate_dataset writes for a country holds exactly
\* the loaded rows whose Country Code equals iso2 (compared exactly, case
\* included), in their original order, and no other row.
C1_ResourceHoldsExactlyTheCountryRows ==
    LET L == Loaded
    IN  \A n \in DOMAIN calls :
            Returned(n) =>
                LET res == calls[n].ret.resources[1]
                    M   == MatchIdx(L, calls[n].country.iso2)
                IN  /\ res \in tempdir
                    /\ Len(res.rows) = Cardinality(M)
                    /\ \A k \in M :
                           res.rows[Cardinality({j \in M : j <= k})]
                               = Restrict(L.rows[k].cells, res.headers)

\* A CO dataset made of the first and third row, the second row being "co"
C1_Witness ==
    LET L == Loaded
    IN  \E n \in DOMAIN calls :
            /\ Returned(n)
            /\ calls[n].country.iso2 = "CO"
            /\ MatchIdx(L, "CO") = {1, 3}
            /\ L.rows[2].cells["Country Code"] = [str |-> "co"]
            /\ L.rows[1].cells # L.rows[3].cells

\* The datasets returned so far
ReturnedDatasets ==
    {calls[n].ret : n \in {m \in DOMAIN calls : Returned(m)}}
        \cup (IF global_ret = NotCalled THEN {} ELSE {global_ret})

\* C2: the time period of every dataset returned by generate_dataset or
\* generate_global_dataset is the date range of the very table whose rows
\* are serialized into the dataset's resource.
C2_TimePeriodIsRangeOfResource ==
    \A ds \in ReturnedDatasets :
        /\ Len(ds.resources) = 1
        /\ ds.time_period = get_date_range(FrameOf(ds.resources[1]))

\* A country dataset whose period differs from the period of the whole
\* table, next to the global dataset
C2_Witness ==
    /\ global_ret # NotCalled
    /\ \E n \in DOMAIN calls :
        /\ Returned(n)
        /\ calls[n].ret.time_period # global_ret.time_period
        /\ calls[n].ret.time_period[1] <= calls[n].ret.time_period[2]

\* C3: the resource of the PSE dataset has no Latitude, Longitude or City
\* column; the global resource has the three columns in every row, holds
\* every loaded row, and the three values are empty in every row whose
\* Country Code is "PS".
C3_PalestineRedaction ==
    LET L == Loaded
    IN  /\ \A n \in DOMAIN calls :
            (Returned(n) /\ calls[n].country.iso3 = "PSE") =>
                LET res == calls[n].ret.resources[1]
                IN  /\ Range(res.headers) \cap {"Latitude", "Longitude", "City"} = {}
                    /\ \A k \in DOMAIN res.rows :
                           DOMAIN res.rows[k] \cap {"Latitude", "Longitude", "City"} = {}
        /\ global_ret # NotCalled =>
                LET res == global_ret.resources[1]
                IN  /\ res.headers = L.columns
                    /\ Len(res.rows) = Len(L.rows)
                    /\ \A k \in DOMAIN res.rows :
                        /\ DOMAIN res.rows[k] = Range(L.columns)
                        /\ \A c \in DOMAIN res.rows[k] \ {"Latitude", "Longitude", "City"} :
                               res.rows[k][c] = L.rows[k].cells[c]
                        /\ L.rows[k].cells["Country Code"] = [str |-> "PS"] =>
                               \A c \in {"Latitude", "Longitude", "City"} :
                                   res.rows[k][c] = [str |-> ""]

\* The PSE dataset and the global dataset of a table with a located PS row
C3_Witness ==
    LET L == Loaded
    IN  /\ global_ret # NotCalled
        /\ \E n \in DOMAIN calls : Returned(n) /\ calls[n].country.iso3 = "PSE"
        /\ \E k \in DOMAIN L.rows :
            /\ L.rows[k].cells["Country Code"] = [str |-> "PS"]
            /\ L.rows[k].cells["City"] = [str |-> "Gaza"]
            /\ L.rows[k].cells["Latitude"] = [num |-> 31]
        /\ \E k \in DOMAIN L.rows :
            L.rows[k].cells["Country Code"] = [str |-> "CO"]

\* Whether the resource of the dataset that call n returned holds loaded row k
Holds(L, n, k) ==
    /\ Returned(n)
    /\ LET res == calls[n].ret.resources[1]
       IN  \E j \in DOMAIN res.rows : res.rows[j] = Restrict(L.rows[k].cells, res.headers)

\* The calls of the per-country loop whose dataset holds loaded row k
DatasetsHolding(L, k) == {n \in DOMAIN calls : Holds(L, n, k)}

\* C4: over one run of main every loaded row is in the resource of exactly
\* one dataset of the per-country loop, never in none and never in two.
C4_EveryRowInExactlyOneCountryDataset ==
    LET L == Loaded
    IN  pc = "done" =>
            \A k \in DOMAIN L.rows : Cardinality(DatasetsHolding(L, k)) = 1

\* C4 as amended: every loaded row is in the resource of at most one dataset
\* of the per-country loop; once the loop is over it is in exactly one when
\* its Country Code is the iso2 of a country that is HRP or PSE and whose
\* location the platform resolved, and in none otherwise.
C4_RowInAtMostOneCountryDataset ==
    LET L == Loaded
    IN  \A k \in DOMAIN L.rows :
            /\ Cardinality(DatasetsHolding(L, k)) <= 1
            /\ \A n \in DatasetsHolding(L, k) :
                   L.rows[k].cells["Country Code"] = [str |-> calls[n].country.iso2]
            /\ pc \in {"global", "done"} =>
                   (Cardinality(DatasetsHolding(L, k)) = 1
                       <=> \E c \in DOMAIN countries :
                              /\ countries[c].isHRP \/ countries[c].iso3 = "PSE"
                              /\ L.rows[k].cells["Country Code"] = [str |-> countries[c].iso2]
                              /\ \A n \in DOMAIN calls :
                                     calls[n].country = countries[c] => calls[n].resolves)

\* A finished run over a CO row that is published, an FR row that no dataset
\* holds and a PS row whose dataset was returned
C4_Witness ==
    LET L == Loaded
    IN  /\ pc = "done"
        /\ \E k \in DOMAIN L.rows :
            /\ L.rows[k].cells["Country Code"] = [str |-> "CO"]
            /\ Cardinality(DatasetsHolding(L, k)) = 1
        /\ \E k \in DOMAIN L.rows :
            /\ L.rows[k].cells["Country Code"] = [str |-> "FR"]
            /\ DatasetsHolding(L, k) = {}
        /\ \E k \in DOMAIN L.rows :
            /\ L.rows[k].cells["Country Code"] = [str |-> "PS"]
            /\ Cardinality(DatasetsHolding(L, k)) = 1

\* The countries among the first k that the loop generates a dataset for
SelectedUpTo(k) ==
    {c \in 1..k : countries[c].isHRP \/ countries[c].iso3 = "PSE"}

\* The loop went through the countries one after the other without an
\* exception: generate_dataset was called once for every selected country
\* passed so far, in the order of countries, and after the loop the global
\* dataset was generated and created
RunContinues ==
    /\ pc # "aborted"
    /\ i \in 1..(Len(countries) + 1)
    /\ Len(calls) = Cardinality(SelectedUpTo(i - 1))
    /\ \A n \in DOMAIN calls :
           \E c \in SelectedUpTo(i - 1) :
               /\ calls[n].country = countries[c]
               /\ n = Cardinality(SelectedUpTo(c))
    /\ pc \in {"global", "done"} <=> (i = Len(countries) + 1 /\ _data # EmptyFrame)
    /\ pc = "done" =>
           /\ global_ret # NotCalled
           /\ Len(created) >= 1
           /\ created[Len(created)].name = "aid-worker-security-data-global"

\* The datasets main created in HDX for a country
CreatedFor(country) ==
    {m \in DOMAIN created : created[m].location = Lower(country.iso3)}

\* C5: when no loaded row has the country's iso2, generate_dataset returns
\* None without constructing a dataset or writing a file and without
\* raising; main creates no dataset for the country and goes on to the next
\* country and then to the global dataset.
C5_NoDataSkipsCountry ==
    LET L == Loaded
    IN  /\ RunContinues
        /\ \A n \in DOMAIN calls :
               MatchIdx(L, calls[n].country.iso2) = {} =>
                   /\ calls[n].ret = None
                   /\ ~calls[n].constructed
                   /\ ~calls[n].wrote
                   /\ CreatedFor(calls[n].country) = {}
                   /\ \A f \in tempdir :
                          f.filename # "AWSD_" \o calls[n].country.iso2
                                            \o "_security_incidents.csv"

\* A finished run in which COL had no row, a later country was published
\* and the global dataset was created
C5_Witness ==
    LET L == Loaded
    IN  /\ pc = "done"
        /\ MatchIdx(L, "CO") = {}
        /\ calls[1].country.iso3 = "COL"
        /\ calls[1].ret = None
        /\ \E n \in DOMAIN calls : n > 1 /\ Returned(n)
        /\ Len(created) >= 2

\* C6: when add_country_location raises HDXError, generate_dataset returns
\* None and lets no exception escape; main creates no dataset for that
\* country and still goes through the remaining countries and the global
\* dataset.
C6_UnresolvedLocationSkipsCountry ==
    LET L == Loaded
    IN  /\ pc # "aborted"
        /\ Len(calls) = Cardinality(SelectedUpTo(i - 1))
        /\ pc = "done" => (i = Len(countries) + 1 /\ global_ret # NotCalled
                              /\ global_ret.name = created[Len(created)].name)
        /\ \A n \in DOMAIN calls :
               (MatchIdx(L, calls[n].country.iso2) # {} /\ ~calls[n].resolves) =>
                   /\ calls[n].ret = None
                   /\ ~calls[n].wrote
                   /\ CreatedFor(calls[n].country) = {}

\* A finished run in which COL had rows but did not resolve, a later country
\* was published and the global dataset was created
C6_Witness ==
    LET L == Loaded
    IN  /\ pc = "done"
        /\ MatchIdx(L, "CO") # {}
        /\ calls[1].country.iso3 = "COL"
        /\ ~calls[1].resolves
        /\ calls[1].ret = None
        /\ \E n \in DOMAIN calls : n > 1 /\ Returned(n)
        /\ Len(created) >= 2

-----------------------------------------------------------------------------
(* Dates as the properties state them *)

\* A missing or non-numeric value counts as 1
OrOne(c) == IF "num" \in DOMAIN c THEN c.num ELSE 1

\* v brought into lo..hi
Clamped(v, lo, hi) == Max({lo, Min({v, hi})})

MonthLength(y, m) ==
    CASE m \in {1, 3, 5, 7, 8, 10, 12} -> 31
      [] m \in {4, 6, 9, 11} -> 30
      [] m = 2 -> IF y % 400 = 0 \/ (y % 4 = 0 /\ y % 100 # 0) THEN 29 ELSE 28

\* The year, month and day of a row after defaulting and clamping
YearOf(cells) == OrOne(cells["Year"])

MonthOf(cells) == Clamped(OrOne(cells["Month"]), 1, 12)

DayOf(cells) == Clamped(OrOne(cells["Day"]), 1, 31)

DateNumber(cells) == YearOf(cells) * 10000 + MonthOf(cells) * 100 + DayOf(cells)

\* The defaulted and clamped values form a date of the calendar
IsCalendarDate(cells) ==
    /\ YearOf(cells) >= 1 /\ YearOf(cells) <= 9999
    /\ DayOf(cells) <= MonthLength(YearOf(cells), MonthOf(cells))

\* The date lies in the years a timestamp can hold (1677-09-22 to
\* 2262-04-11); the default year 1 of a missing Year does not
IsTimestampDate(cells) ==
    /\ IsCalendarDate(cells)
    /\ DateNumber(cells) >= 16770922
    /\ DateNumber(cells) <= 22620411

\* No row of the resource gives a date
NoDate(resource) ==
    \A k \in DOMAIN resource.rows : ~IsTimestampDate(resource.rows[k])

IsSentinelPair(period) ==
    /\ Len(period) = 2
    /\ {period[1], period[2]} = {default_date, default_enddate}

CalendarRows == {k \in DOMAIN _data.rows : IsCalendarDate(_data.rows[k].cells)}

DatesOf(K) == {DateNumber(_data.rows[k].cells) : k \in K}

\* C8: get_date_range defaults a missing Year, Month or Day to 1, clamps
\* Month to 1..12 and Day to 1..31, leaves out without raising every row
\* whose values still form no valid calendar date, and returns the minimum
\* and the maximum date over exactly the remaining rows when there is one.
C8_RangeOverCalendarDates ==
    pc = "done" =>
        /\ range # KeyError
        /\ CalendarRows # {} =>
               range = <<Min(DatesOf(CalendarRows)), Max(DatesOf(CalendarRows))>>

\* C9: once get_data has loaded the table, no call of generate_dataset or
\* generate_global_dataset changes it: its columns, rows and values stay as
\* loaded, so a later projection reads the same table as an earlier one.
C9_LoadedTableUnchanged ==
    pc # "get_data" => _data = Loaded

\* A finished run in which the PSE dataset lost its location columns and the
\* global dataset blanked them, the loaded PS row still holding its values
C9_Witness ==
    /\ pc = "done"
    /\ \E n \in DOMAIN calls :
        /\ Returned(n)
        /\ calls[n].country.iso3 = "PSE"
        /\ "City" \notin Range(calls[n].ret.resources[1].headers)
    /\ \E k \in DOMAIN _data.rows :
        /\ _data.rows[k].cells["Country Code"] = [str |-> "PS"]
        /\ _data.rows[k].cells["City"] = [str |-> "Gaza"]
        /\ _data.rows[k].cells["Latitude"] = [num |-> 31]
        /\ global_ret.resources[1].rows[k]["City"] = [str |-> ""]
        /\ global_ret.resources[1].rows[k]["Latitude"] = [str |-> ""]
    /\ "City" \in Range(_data.columns)

\* C10: for every input table, the sentinel cases included, the pair that
\* get_date_range returns and that becomes the time period of the dataset
\* has its start no later than its end.
C10_StartNotAfterEnd ==
    \A ds \in ReturnedDatasets : ds.time_period[1] <= ds.time_period[2]

=============================================================================
